---- MODULE Spec2Model ----
(***************************************************************************)
(* Model of the rail-score-js client: the request/response/error pipeline  *)
(* of RailScore.request and RailScore.handleError (src/src/client.ts), the *)
(* error classes (errors.ts) and the argument checks of the API wrappers   *)
(* (evaluation.ts, generation.ts, compliance.ts).                          *)
(*                                                                         *)
(* One call is a small process: idle -> fetching -> reading the body ->    *)
(* done.  JavaScript runs each continuation to completion, so an action    *)
(* is everything that runs between two suspension points (the two awaits   *)
(* on the transport: fetch() and response.json()).                         *)
(***************************************************************************)
EXTENDS Integers, Sequences, FiniteSets, TLC

VARIABLES client, pc, call, timer, aborted, fetchInit, transport,
          transportCalls, resp, classified, outcome, delivered, util

vars == <<client, pc, call, timer, aborted, fetchInit, transport,
          transportCalls, resp, classified, outcome, delivered, util>>

\* Largest number a numeric field of an error body takes in the model.
MaxNum == 1

\* The calls of the model; the base specification runs call 1 only.
Calls == {1, 2}

-----------------------------------------------------------------------------
(* Optional values: <<>> is undefined/absent, <<v>> is the value v.        *)

Absent == <<>>

Some(v) == <<v>>

IsPresent(o) == Len(o) > 0

-----------------------------------------------------------------------------
(* JSON values as response.json() delivers them.                           *)

\* An object is modelled by the fields the client reads: the six fields of an
\* error body, and the fields score / results / variations that dimension(),
\* checkMultiple() and variations() unwrap from a success body.
EmptyEnv ==
  [message |-> Absent, error |-> Absent, field |-> Absent,
   balance |-> Absent, required |-> Absent, retry_after |-> Absent,
   score |-> Absent, results |-> Absent, variations |-> Absent]

NumVals == {Absent} \cup {Some(n) : n \in 0..MaxNum}

\* Objects with any subset of the error fields.
Envelopes ==
  [message : {Absent, Some(""), Some("msg")},
   error : {Absent, Some(""), Some("err")},
   field : {Absent, Some("content")},
   balance : NumVals, required : NumVals, retry_after : NumVals,
   score : {Absent}, results : {Absent}, variations : {Absent}]

\* Success bodies that carry the wrapped fields.
Payloads ==
  [message : {Absent}, error : {Absent}, field : {Absent},
   balance : {Absent}, required : {Absent}, retry_after : {Absent},
   score : {Absent, Some("object")}, results : {Absent, Some("array")},
   variations : {Absent, Some("array")}]

\* t is the JSON type; env holds the fields of an object (EmptyEnv otherwise).
JsonValue(t, env) == [t |-> t, env |-> env]

ScalarTags == {"null", "false", "true", "zero", "number", "emptystr", "string"}

NonObjectValues == {JsonValue(t, EmptyEnv) : t \in ScalarTags \cup {"array"}}

ObjectValues == {JsonValue("object", e) : e \in Envelopes \cup Payloads}

JsonValues == NonObjectValues \cup ObjectValues

NullV == JsonValue("null", EmptyEnv)

\* A raw body: text that parses to val, or text that does not parse.
RawBody(ok, val) == [ok |-> ok, val |-> val]

Unparsable == RawBody(FALSE, NullV)

RawBodies == {Unparsable} \cup {RawBody(TRUE, v) : v \in JsonValues}

\* JavaScript truthiness of a JSON value: !v
Falsy(v) == v.t \in {"null", "false", "zero", "emptystr"}

\* typeof v === 'object' (true of null, arrays and objects)
TypeofObject(v) == v.t \in {"null", "array", "object"}

\* Reading a property of null or undefined throws a TypeError.
PropAccessThrows(v) == v.t \in {"null", "undefined"}

\* v.name for a property name: undefined unless v is an object that has it.
Prop(v, name) == IF v.t = "object" THEN v.env[name] ELSE Absent

\* a || d on an optional string / an optional number
OrStr(o, d) == IF IsPresent(o) /\ o[1] # "" THEN o[1] ELSE d

OrNum(o, d) == IF IsPresent(o) /\ o[1] # 0 THEN o[1] ELSE d

-----------------------------------------------------------------------------
(* Errors.  kind is the class, name the error's name property.             *)

Msg(fmt, status, text) == [fmt |-> fmt, status |-> status, text |-> text]

Err(kind, name, message) ==
  [kind |-> kind, name |-> name, message |-> message,
   balance |-> Absent, required |-> Absent, field |-> Absent,
   retryAfter |-> Absent, statusCode |-> Absent, originalError |-> Absent]

RailScoreKinds ==
  {"RailScoreError", "AuthenticationError", "InsufficientCreditsError",
   "ValidationError", "RateLimitError", "TimeoutError", "NetworkError",
   "ServerError"}

RailScoreError(message) == Err("RailScoreError", "RailScoreError", message)

AuthenticationError(text) ==
  Err("AuthenticationError", "AuthenticationError", Msg("plain", 0, text))

\* InsufficientCreditsError with the two properties assigned crosswise.
InsufficientCreditsErrorSwapped(balance, required) ==
  [Err("InsufficientCreditsError", "InsufficientCreditsError",
       Msg("credits", 0, ""))
     EXCEPT !.balance = Some(required), !.required = Some(balance)]

InsufficientCreditsError(balance, required) ==
  [Err("InsufficientCreditsError", "InsufficientCreditsError",
       Msg("credits", 0, ""))
     EXCEPT !.balance = Some(balance), !.required = Some(required)]

ValidationErrorMsg(message, field) ==
  [Err("ValidationError", "ValidationError", message) EXCEPT !.field = field]

ValidationError(text, field) == ValidationErrorMsg(Msg("plain", 0, text), field)

RateLimitError(retryAfter) ==
  [Err("RateLimitError", "RateLimitError", Msg("ratelimit", 0, ""))
     EXCEPT !.retryAfter = Some(retryAfter)]

TimeoutError ==
  Err("TimeoutError", "TimeoutError", Msg("timeout", 0, ""))

NetworkError(e) ==
  [Err("NetworkError", "NetworkError", Msg("network", 0, e.message.text))
     EXCEPT !.originalError = Some(e.name)]

ServerError(text, status) ==
  [Err("ServerError", "ServerError", Msg("plain", 0, text))
     EXCEPT !.statusCode = Some(status)]

\* An error that is not of the SDK: thrown by the transport or the runtime.
ForeignError(name) == Err("Error", name, Msg("plain", 0, "failure"))

\* error instanceof RailScoreError
IsRailScoreError(e) == e.kind \in RailScoreKinds

-----------------------------------------------------------------------------
(* RailScore.handleError: classification of a non-2xx response.            *)

\* { message: response.statusText }
StatusTextEnvelope(statusText) ==
  JsonValue("object", [EmptyEnv EXCEPT !.message = Some(statusText)])

\* try { errorData = await response.json() } catch { errorData = {...} }
\* json = [threw, val] is the outcome of response.json().
ParsedOrFallback(json, statusText) ==
  IF json.threw THEN StatusTextEnvelope(statusText) ELSE json.val

\* EnsureObject without the `!errorData ||` test: null passes typeof.
EnsureObjectTypeofOnly(errorData, statusText) ==
  IF ~TypeofObject(errorData)
  THEN StatusTextEnvelope(statusText)
  ELSE errorData

\* if (!errorData || typeof errorData !== 'object') errorData = {...}
EnsureObject(errorData, statusText) ==
  IF Falsy(errorData) \/ ~TypeofObject(errorData)
  THEN StatusTextEnvelope(statusText)
  ELSE errorData

\* ErrorMessage without the last alternative: an undefined message.
ErrorMessageNoDefault(errorData) ==
  OrStr(Prop(errorData, "message"), OrStr(Prop(errorData, "error"), ""))

\* errorData.message || errorData.error || 'Unknown error'
ErrorMessage(errorData) ==
  OrStr(Prop(errorData, "message"),
        OrStr(Prop(errorData, "error"), "Unknown error"))

\* ErrorForStatus with the 5xx case reduced to `case 500:`.
ErrorForStatusOnly500(status, errorData) ==
  LET message == OrStr(Prop(errorData, "message"),
                       OrStr(Prop(errorData, "error"), "Unknown error")) IN
  CASE status = 401 -> AuthenticationError(message)
    [] status = 402 ->
         InsufficientCreditsError(OrNum(Prop(errorData, "balance"), 0),
                                  OrNum(Prop(errorData, "required"), 0))
    [] status = 422 -> ValidationError(message, Prop(errorData, "field"))
    [] status = 429 ->
         RateLimitError(OrNum(Prop(errorData, "retry_after"), 60))
    [] status = 500 -> ServerError(message, status)
    [] OTHER -> RailScoreError(Msg("generic", status, message))

\* switch (status) { ... }: the error thrown for the status.
ErrorForStatus(status, errorData) ==
  LET message == ErrorMessage(errorData) IN
  CASE status = 401 -> AuthenticationError(message)
    [] status = 402 ->
         InsufficientCreditsError(OrNum(Prop(errorData, "balance"), 0),
                                  OrNum(Prop(errorData, "required"), 0))
    [] status = 422 -> ValidationError(message, Prop(errorData, "field"))
    [] status = 429 ->
         RateLimitError(OrNum(Prop(errorData, "retry_after"), 60))
    [] status \in {500, 502, 503, 504} -> ServerError(message, status)
    [] OTHER -> RailScoreError(Msg("generic", status, message))

\* HandleError whose default branch returns instead of throwing.
HandleErrorDefaultReturns(status, statusText, json) ==
  LET errorData == EnsureObject(ParsedOrFallback(json, statusText), statusText)
  IN IF PropAccessThrows(errorData)
     THEN [threw |-> TRUE, err |-> ForeignError("TypeError")]
     ELSE [threw |-> status \in {401, 402, 422, 429, 500, 502, 503, 504},
           err |-> ErrorForStatus(status, errorData)]

\* The whole of handleError.  threw = FALSE would be a normal return.
HandleError(status, statusText, json) ==
  LET errorData == EnsureObject(ParsedOrFallback(json, statusText), statusText)
  IN IF PropAccessThrows(errorData)
     THEN [threw |-> TRUE, err |-> ForeignError("TypeError")]
     ELSE [threw |-> TRUE, err |-> ErrorForStatus(status, errorData)]

-----------------------------------------------------------------------------
(* RailScore.request                                                       *)

\* response.ok
ResponseOk(status) == status >= 200 /\ status < 300

\* A clearTimeout that was left out.
ClearTimeoutMissing(t) == t

\* clearTimeout(timeoutId): a timer that has fired or was cleared stays so.
ClearTimeout(t) == IF t = "armed" THEN "cleared" ELSE t

\* MergeInit with the options spread last: { signal: ..., ...options }
MergeInitOptionsLast(options) ==
  [options EXCEPT !.signal = IF @ = "none" THEN "own" ELSE @]

\* { ...options, headers: {...}, signal: controller.signal }
MergeInit(options) == [options EXCEPT !.signal = "own"]

\* CatchBlock without the re-throw of RailScoreError instances.
CatchBlockNoRethrow(error) ==
  IF error.name = "AbortError" THEN TimeoutError
  ELSE NetworkError(error)

\* The catch block of request(): what is thrown on to the caller.
CatchBlock(error) ==
  IF IsRailScoreError(error) THEN error
  ELSE IF error.name = "AbortError" THEN TimeoutError
  ELSE NetworkError(error)

\* response.json(): the parsed value, or a throw when the text is no JSON.
ResponseJson(raw) == [threw |-> ~raw.ok, val |-> raw.val]

NoErr == Err("none", "none", Msg("plain", 0, ""))

Pending == [state |-> "pending", value |-> NullV, err |-> NoErr]

Resolved(v) == [state |-> "resolved", value |-> v, err |-> NoErr]

Rejected(e) == [state |-> "rejected", value |-> NullV, err |-> e]

NoResp == [status |-> 0, statusText |-> "", body |-> Unparsable, read |-> FALSE]

-----------------------------------------------------------------------------
(* Arguments of the API methods.  A string is a sequence of characters, an *)
(* array a sequence, and an argument that was not passed is Absent.        *)

\* Longest string argument of the model.
MaxStrLen == 1

\* Longest array argument of the model (items, chunks, issues, sets).
MaxArrLen == 2

\* Longest frameworks array of the model: one more than the limit of 10.
MaxFrameworks == 11

\* Range of the numeric arguments of the model: -1 .. MaxArgNum.
MaxArgNum == 11

Chars == {" ", "a"}

Strs == UNION {[1..n -> Chars] : n \in 0..MaxStrLen}

OptStrs == {Absent} \cup {Some(s) : s \in Strs}

SeqsUpTo(S, n) == UNION {[1..k -> S] : k \in 0..n}

OptArrays(S, n) == {Absent} \cup {Some(q) : q \in SeqsUpTo(S, n)}

OptNums == {Absent} \cup {Some(n) : n \in (-1)..MaxArgNum}

RECURSIVE TrimStart(_)
\* the string without its leading white space
TrimStart(s) ==
  IF Len(s) > 0 /\ Head(s) = " " THEN TrimStart(Tail(s)) ELSE s

RECURSIVE TrimEnd(_)
\* the string without its trailing white space
TrimEnd(s) ==
  IF Len(s) > 0 /\ s[Len(s)] = " "
  THEN TrimEnd(SubSeq(s, 1, Len(s) - 1))
  ELSE s

\* A trim that was left out.
TrimMissing(s) == s

\* String.prototype.trim
Trim(s) == TrimEnd(TrimStart(s))

\* !s || s.trim().length === 0
IsBlank(o) == ~IsPresent(o) \/ Len(o[1]) = 0 \/ Len(Trim(o[1])) = 0

\* !x for an enum selector (a missing or an empty name)
IsMissing(o) == ~IsPresent(o) \/ o[1] = ""

\* !xs || xs.length === 0
IsEmptyArray(o) == ~IsPresent(o) \/ Len(o[1]) = 0

NoArgs ==
  [content |-> Absent, dimension |-> Absent, dimensions |-> Absent,
   items |-> Absent, query |-> Absent, response |-> Absent,
   contextChunks |-> Absent, prompt |-> Absent, targetScore |-> Absent,
   maxIterations |-> Absent, temperature |-> Absent, issues |-> Absent,
   dimensionSets |-> Absent, count |-> Absent, framework |-> Absent,
   frameworks |-> Absent, tier |-> Absent]

OptNames == {Absent, Some(""), Some("name")}

\* An element of batch(): a plain string, or an object {content, id}.
BatchItems ==
  {[isString |-> TRUE, content |-> Some(s), id |-> Absent] : s \in Strs}
  \cup {[isString |-> FALSE, content |-> c, id |-> i] :
          c \in OptStrs, i \in {Absent, Some(""), Some("doc")}}

Chunks == {[content |-> c] : c \in OptStrs}

DimSets == OptArrays({"safety"}, 1)

\* `item-${index}`
ItemId(index) == <<"item-0", "item-1", "item-2", "item-3">>[index + 1]

\* The first check that fails, in the order of the code; Absent when none.
FirstOf(checks) ==
  IF \E i \in 1..Len(checks) : IsPresent(checks[i])
  THEN checks[CHOOSE i \in 1..Len(checks) :
                /\ IsPresent(checks[i])
                /\ \A j \in 1..(i - 1) : ~IsPresent(checks[j])]
  ELSE Absent

Check(fails, text) == IF fails THEN Some(Msg("plain", 0, text)) ELSE Absent

\* OutOfRange with the two bounds themselves refused.
OutOfRangeStrict(o, lo, hi) == IsPresent(o) /\ (o[1] <= lo \/ o[1] >= hi)

\* x !== undefined && (x < lo || x > hi)
OutOfRange(o, lo, hi) == IsPresent(o) /\ (o[1] < lo \/ o[1] > hi)

\* NormalizeItems that numbers the items from 1.
NormalizeItemsFromOne(items) ==
  [i \in 1..Len(items) |->
     IF items[i].isString
     THEN [isString |-> FALSE, content |-> items[i].content,
           id |-> Some(ItemId(i))]
     ELSE items[i]]

\* items.map((item, index) => typeof item === 'string' ? {...} : item)
NormalizeItems(items) ==
  [i \in 1..Len(items) |->
     IF items[i].isString
     THEN [isString |-> FALSE, content |-> items[i].content,
           id |-> Some(ItemId(i - 1))]
     ELSE items[i]]

\* for (const item of normalizedItems) if (!item.content || ...) throw
BatchItemCheck(items) ==
  LET n == NormalizeItems(items)
      bad == {i \in 1..Len(n) : IsBlank(n[i].content)}
  IN IF bad = {} THEN Absent
     ELSE LET i == CHOOSE k \in bad : \A j \in bad : k <= j
          IN Some(Msg("item-empty", 0, OrStr(n[i].id, "unknown")))

\* for (let i = 0; ...) if (!contextChunks[i].content || ...) throw
ChunkCheck(chunks) ==
  LET bad == {i \in 1..Len(chunks) : IsBlank(chunks[i].content)}
  IN IF bad = {} THEN Absent
     ELSE Some(Msg("chunk-empty", (CHOOSE k \in bad : \A j \in bad : k <= j) - 1, ""))

ValidateBasic(a) == Check(IsBlank(a.content), "Content cannot be empty")

ValidateDimension(a) ==
  FirstOf(<<Check(IsBlank(a.content), "Content cannot be empty"),
            Check(IsMissing(a.dimension), "Dimension is required")>>)

ValidateCustom(a) ==
  FirstOf(<<Check(IsBlank(a.content), "Content cannot be empty"),
            Check(IsEmptyArray(a.dimensions),
                  "At least one dimension is required")>>)

ValidateBatch(a) ==
  IF IsEmptyArray(a.items)
  THEN Check(TRUE, "Items array cannot be empty")
  ELSE BatchItemCheck(a.items[1])

\* tier: 'fast' | 'balanced' | 'advanced' = 'balanced'
BatchTier(a) == IF IsPresent(a.tier) THEN a.tier[1] ELSE "balanced"

NoBody == [items |-> <<>>, tier |-> ""]

\* The body batch() passes to request(): { items: normalizedItems, tier }.
\* (The bodies of the other methods are not modelled.)
RequestBody(m, a) ==
  IF m = "batch" /\ IsPresent(a.items)
  THEN [items |-> NormalizeItems(a.items[1]), tier |-> BatchTier(a)]
  ELSE NoBody

ValidateRagEvaluate(a) ==
  FirstOf(<<Check(IsBlank(a.query), "Query cannot be empty"),
            Check(IsBlank(a.response), "Response cannot be empty"),
            Check(IsEmptyArray(a.contextChunks),
                  "At least one context chunk is required"),
            IF IsEmptyArray(a.contextChunks) THEN Absent
            ELSE ChunkCheck(a.contextChunks[1])>>)

ValidateGenerate(a) ==
  FirstOf(<<Check(IsBlank(a.prompt), "Prompt cannot be empty"),
            Check(OutOfRange(a.targetScore, 0, 10),
                  "Target score must be between 0 and 10"),
            Check(OutOfRange(a.maxIterations, 1, 10),
                  "Max iterations must be between 1 and 10"),
            Check(OutOfRange(a.temperature, 0, 2),
                  "Temperature must be between 0 and 2")>>)

\* targetScore: number = 8.0
ImproveTargetScore(a) ==
  IF IsPresent(a.targetScore) THEN a.targetScore ELSE Some(8)

ValidateImprove(a) ==
  FirstOf(<<Check(IsBlank(a.content), "Content cannot be empty"),
            Check(OutOfRange(ImproveTargetScore(a), 0, 10),
                  "Target score must be between 0 and 10")>>)

ValidateRewrite(a) ==
  FirstOf(<<Check(IsBlank(a.content), "Content cannot be empty"),
            Check(IsEmptyArray(a.issues), "At least one issue is required"),
            Check(/\ ~IsEmptyArray(a.issues)
                  /\ \E i \in 1..Len(a.issues[1]) : IsBlank(a.issues[1][i]),
                  "Issues cannot contain empty strings")>>)

\* count: number = 1
VariationsCount(a) == IF IsPresent(a.count) THEN a.count ELSE Some(1)

ValidateVariations(a) ==
  FirstOf(<<Check(IsBlank(a.prompt), "Prompt cannot be empty"),
            Check(IsEmptyArray(a.dimensionSets),
                  "At least one dimension set is required"),
            Check(OutOfRange(VariationsCount(a), 1, 5),
                  "Count must be between 1 and 5"),
            Check(/\ ~IsEmptyArray(a.dimensionSets)
                  /\ \E i \in 1..Len(a.dimensionSets[1]) :
                        IsEmptyArray(a.dimensionSets[1][i]),
                  "Each dimension set must contain at least one dimension")>>)

ValidateCheck(a) ==
  FirstOf(<<Check(IsBlank(a.content), "Content cannot be empty"),
            Check(IsMissing(a.framework), "Framework is required")>>)

\* ValidateCheckMultiple with `frameworks.length >= 10`.
ValidateCheckMultipleBelowTen(a) ==
  FirstOf(<<Check(IsBlank(a.content), "Content cannot be empty"),
            Check(IsEmptyArray(a.frameworks),
                  "At least one framework is required"),
            Check(~IsEmptyArray(a.frameworks) /\ Len(a.frameworks[1]) >= 10,
                  "Maximum 10 frameworks allowed per request")>>)

ValidateCheckMultiple(a) ==
  FirstOf(<<Check(IsBlank(a.content), "Content cannot be empty"),
            Check(IsEmptyArray(a.frameworks),
                  "At least one framework is required"),
            Check(~IsEmptyArray(a.frameworks) /\ Len(a.frameworks[1]) > 10,
                  "Maximum 10 frameworks allowed per request")>>)

ValidateGetRequirements(a) ==
  Check(IsMissing(a.framework), "Framework is required")

ValidateScan(a) == Check(IsBlank(a.content), "Content cannot be empty")

ValidateGetRecommendations(a) ==
  FirstOf(<<Check(IsBlank(a.content), "Content cannot be empty"),
            Check(IsMissing(a.framework), "Framework is required")>>)

-----------------------------------------------------------------------------
(* The client: its constructor, and the URL and headers of a request.      *)

DefaultBaseUrl == "https://api.responsibleailabs.ai"

DefaultTimeout == 60000

\* The configurations the model constructs a client from.
Configs ==
  [apiKey : {Absent, Some(""), Some("key"), Some("other-key")},
   baseUrl : {Absent, Some(""), Some("https://custom")},
   timeout : {Absent, Some(0), Some(5000)}]

DefaultConfig == [apiKey |-> Some("key"), baseUrl |-> Absent, timeout |-> Absent]

NoConfig == [apiKey |-> Absent, baseUrl |-> Absent, timeout |-> Absent]

\* No client yet.  config records what the constructor was called with.
NoClient ==
  [state |-> "none", config |-> NoConfig, apiKey |-> "", baseUrl |-> "",
   timeout |-> 0, error |-> NoErr]

\* A constructor without the check of the API key.
NewClientUnchecked(config) ==
  [state |-> "ready",
   config |-> config,
   apiKey |-> IF IsPresent(config.apiKey) THEN config.apiKey[1] ELSE "",
   baseUrl |-> OrStr(config.baseUrl, DefaultBaseUrl),
   timeout |-> OrNum(config.timeout, DefaultTimeout),
   error |-> NoErr]

\* new RailScore(config): the client, or the error the constructor throws.
NewClient(config) ==
  IF ~IsPresent(config.apiKey) \/ config.apiKey[1] = ""
  THEN [NoClient EXCEPT
          !.state = "failed",
          !.config = config,
          !.error = ValidationError("API key is required", Absent)]
  ELSE [state |-> "ready",
        config |-> config,
        apiKey |-> config.apiKey[1],
        baseUrl |-> OrStr(config.baseUrl, DefaultBaseUrl),
        timeout |-> OrNum(config.timeout, DefaultTimeout),
        error |-> NoErr]

\* `${this.baseUrl}${endpoint}`: the parts, concatenated as they are.
Url(baseUrl, endpoint) == <<baseUrl>> \o endpoint

\* Header names are keys of an object: "authorization" is another key.
HeaderNames ==
  {"Content-Type", "Authorization", "User-Agent", "authorization",
   "X-Request-Id"}

NoHeaders == [h \in HeaderNames |-> Absent]

\* The three headers request() sets itself.
DefaultHeaders(apiKey) ==
  [h \in HeaderNames |->
     CASE h = "Content-Type" -> Some(<<"application/json">>)
       [] h = "Authorization" -> Some(<<"Bearer ", apiKey>>)
       [] h = "User-Agent" -> Some(<<"rail-score-js/1.0.0">>)
       [] OTHER -> Absent]

\* MergeHeaders with the defaults spread after options.headers.
MergeHeadersDefaultsLast(defaults, extra) ==
  [h \in HeaderNames |->
     IF IsPresent(defaults[h]) THEN defaults[h] ELSE extra[h]]

\* { 'Content-Type': ..., ..., ...options.headers }
MergeHeaders(defaults, extra) ==
  [h \in HeaderNames |-> IF IsPresent(extra[h]) THEN extra[h] ELSE defaults[h]]

-----------------------------------------------------------------------------
(* The methods: their argument check, endpoint and result.                 *)

ClientMethods == {"request", "getCredits", "getUsage", "healthCheck"}

ApiMethods ==
  {"basic", "dimension", "custom", "batch", "ragEvaluate",
   "generate", "improve", "rewrite", "variations",
   "check", "checkMultiple", "getRequirements", "scan",
   "getRecommendations", "listFrameworks"}

\* The local checks of a method: the message of the first that fails.
Validate(m, a) ==
  CASE m = "basic" -> ValidateBasic(a)
    [] m = "dimension" -> ValidateDimension(a)
    [] m = "custom" -> ValidateCustom(a)
    [] m = "batch" -> ValidateBatch(a)
    [] m = "ragEvaluate" -> ValidateRagEvaluate(a)
    [] m = "generate" -> ValidateGenerate(a)
    [] m = "improve" -> ValidateImprove(a)
    [] m = "rewrite" -> ValidateRewrite(a)
    [] m = "variations" -> ValidateVariations(a)
    [] m = "check" -> ValidateCheck(a)
    [] m = "checkMultiple" -> ValidateCheckMultiple(a)
    [] m = "getRequirements" -> ValidateGetRequirements(a)
    [] m = "scan" -> ValidateScan(a)
    [] m = "getRecommendations" -> ValidateGetRecommendations(a)
    [] OTHER -> Absent

\* The endpoint a method passes to request(), as the parts it concatenates.
Endpoint(m, a) ==
  CASE m = "basic" -> <<"/v1/evaluation/basic">>
    [] m = "dimension" -> <<"/v1/evaluation/dimension">>
    [] m = "custom" -> <<"/v1/evaluation/custom">>
    [] m = "batch" -> <<"/v1/evaluation/batch">>
    [] m = "ragEvaluate" -> <<"/v1/evaluation/rag">>
    [] m = "generate" -> <<"/v1/generation/generate">>
    [] m = "improve" -> <<"/v1/generation/improve">>
    [] m = "rewrite" -> <<"/v1/generation/rewrite">>
    [] m = "variations" -> <<"/v1/generation/variations">>
    [] m = "check" -> <<"/v1/compliance/check">>
    [] m = "checkMultiple" -> <<"/v1/compliance/check-multiple">>
    [] m = "getRequirements" ->
         <<"/v1/compliance/requirements/", a.framework[1]>>
    [] m = "scan" -> <<"/v1/compliance/scan">>
    [] m = "getRecommendations" -> <<"/v1/compliance/recommendations">>
    [] m = "listFrameworks" -> <<"/v1/compliance/frameworks">>
    [] m = "getCredits" -> <<"/v1/credits">>
    [] m = "getUsage" -> <<"/v1/usage?", "limit=50">>
    [] m = "healthCheck" -> <<"/health">>
    [] OTHER -> <<"/endpoint">>

HttpMethod(m) ==
  IF m \in {"getRequirements", "listFrameworks", "getCredits", "getUsage",
            "healthCheck", "request"}
  THEN "GET" ELSE "POST"

\* The field of the response a method returns instead of the response.
UnwrapField(m) ==
  CASE m = "dimension" -> "score"
    [] m = "checkMultiple" -> "results"
    [] m = "variations" -> "variations"
    [] OTHER -> ""

\* What the method settles with, given what request() settled with.
ApiOutcome(m, out) ==
  IF out.state = "resolved" /\ UnwrapField(m) # ""
  THEN IF PropAccessThrows(out.value)
       THEN Rejected(ForeignError("TypeError"))
       ELSE LET f == Prop(out.value, UnwrapField(m))
            IN Resolved(JsonValue(IF IsPresent(f) THEN f[1] ELSE "undefined",
                                  EmptyEnv))
  ELSE out

\* The arguments the model passes to a method.
ArgSets(m) ==
  CASE m \in {"basic", "scan"} ->
         {[NoArgs EXCEPT !.content = c] : c \in OptStrs}
    [] m = "dimension" ->
         {[NoArgs EXCEPT !.content = c, !.dimension = d] :
            c \in OptStrs, d \in OptNames}
    [] m = "custom" ->
         {[NoArgs EXCEPT !.content = c, !.dimensions = d] :
            c \in OptStrs, d \in OptArrays({"safety"}, MaxArrLen)}
    [] m = "batch" ->
         {[NoArgs EXCEPT !.items = i, !.tier = t] :
            i \in OptArrays(BatchItems, MaxArrLen), t \in {Absent, Some("fast")}}
    [] m = "ragEvaluate" ->
         {[NoArgs EXCEPT !.query = q, !.response = r, !.contextChunks = k] :
            q \in OptStrs, r \in OptStrs, k \in OptArrays(Chunks, MaxArrLen)}
    [] m = "generate" ->
         {[NoArgs EXCEPT !.prompt = p, !.targetScore = t,
                         !.maxIterations = i, !.temperature = u] :
            p \in OptStrs, t \in OptNums, i \in OptNums, u \in OptNums}
    [] m = "improve" ->
         {[NoArgs EXCEPT !.content = c, !.targetScore = t] :
            c \in OptStrs, t \in OptNums}
    [] m = "rewrite" ->
         {[NoArgs EXCEPT !.content = c, !.issues = i] :
            c \in OptStrs, i \in OptArrays(OptStrs, MaxArrLen)}
    [] m = "variations" ->
         {[NoArgs EXCEPT !.prompt = p, !.dimensionSets = d, !.count = n] :
            p \in OptStrs, d \in OptArrays(DimSets, MaxArrLen), n \in OptNums}
    [] m \in {"check", "getRecommendations"} ->
         {[NoArgs EXCEPT !.content = c, !.framework = f] :
            c \in OptStrs, f \in OptNames}
    [] m = "checkMultiple" ->
         {[NoArgs EXCEPT !.content = c, !.frameworks = f] :
            c \in OptStrs, f \in OptArrays({"gdpr"}, MaxFrameworks)}
    [] m = "getRequirements" ->
         {[NoArgs EXCEPT !.framework = f] : f \in OptNames}
    [] OTHER -> {NoArgs}

\* The options a caller passes to request(): the wrappers pass no signal.
OptionSets(m) ==
  {[method |-> HttpMethod(m), signal |-> g, headers |-> NoHeaders] :
     g \in IF m = "request" THEN {"none", "caller"} ELSE {"none"}}

\* The same, with every choice of headers in the options of request().
HeaderOptionSets(m) ==
  {[method |-> HttpMethod(m), signal |-> "none", headers |-> h] :
     h \in IF m = "request"
           THEN [HeaderNames -> {Absent, Some(<<"custom">>)}]
           ELSE {NoHeaders}}

NoCall ==
  [method |-> "none", args |-> NoArgs,
   options |-> [method |-> "none", signal |-> "none", headers |-> NoHeaders]]

NoInit ==
  [url |-> <<>>, endpoint |-> <<>>, method |-> "none", signal |-> "none",
   headers |-> NoHeaders, body |-> NoBody]

-----------------------------------------------------------------------------
(* utils.ts: functions of evaluation results.                              *)

\* A score is a JavaScript number, a binary floating-point value.  The
\* model keeps the format and its rounding (to nearest, ties to even) with
\* a significand of MantissaBits bits where the program has 53, and counts
\* in units of 1/Unit, the finest step of the model's format.
MantissaBits == 4

Unit == 2 ^ 3

RECURSIVE BitLen(_)
\* The number of binary digits of n.
BitLen(n) == IF n = 0 THEN 0 ELSE 1 + BitLen(n \div 2)

\* The distance between neighbouring values of the format at n.
Spacing(n) ==
  IF BitLen(n) > MantissaBits THEN 2 ^ (BitLen(n) - MantissaBits) ELSE 1

\* The value of the format nearest to num / den, ties to the even
\* significand.
FRound(num, den) ==
  LET sp == Spacing(num \div den)
      lower == ((num \div den) \div sp) * sp
      twice == 2 * (num - lower * den)
  IN IF twice < sp * den THEN lower
     ELSE IF twice > sp * den THEN lower + sp
     ELSE IF (lower \div sp) % 2 = 0 THEN lower ELSE lower + sp

\* a + b and a / n on numbers
FAdd(a, b) == FRound(a + b, 1)

FDiv(a, n) == FRound(a, n)

\* The names of the dimensions of the model.
DimNames == {"safety", "privacy", "fairness"}

\* Most dimensions in a result of the model.
MaxDims == 3

\* Most results in an array of the model.
MaxResults == 3

\* Scores of dimensions: 6.5, 7.0 and 7.5, around the default threshold.
DimScoreVals == {52, 56, 60}

\* threshold: number = 7.0
DefaultThreshold == 7 * Unit

Thresholds == {Absent} \cup {Some(t) : t \in {52, 56, 60, 64}}

\* Object.entries(result.scores): the dimensions in insertion order, each
\* once, with the score of each.
ScoreEntries ==
  {e \in SeqsUpTo([dimension : DimNames, score : DimScoreVals], MaxDims) :
     \A i, j \in 1..Len(e) : e[i].dimension = e[j].dimension => i = j}

NoBest == [dimension |-> "", score |-> Absent]

RECURSIVE ScanLowestOrEqual(_, _)
\* ScanLowest with `<=`: a later dimension of equal score replaces.
ScanLowestOrEqual(entries, best) ==
  IF entries = <<>> THEN best
  ELSE ScanLowestOrEqual(
         Tail(entries),
         IF ~IsPresent(best.score) \/ Head(entries).score <= best.score[1]
         THEN [dimension |-> Head(entries).dimension,
               score |-> Some(Head(entries).score)]
         ELSE best)

RECURSIVE ScanLowest(_, _)
\* for (...) if (!lowestScore || score.score < lowestScore.score) {...}
ScanLowest(entries, best) ==
  IF entries = <<>> THEN best
  ELSE ScanLowest(
         Tail(entries),
         IF ~IsPresent(best.score) \/ Head(entries).score < best.score[1]
         THEN [dimension |-> Head(entries).dimension,
               score |-> Some(Head(entries).score)]
         ELSE best)

GetLowestScoringDimension(scores) == ScanLowest(scores, NoBest)

RECURSIVE ScanHighest(_, _)
\* for (...) if (!highestScore || score.score > highestScore.score) {...}
ScanHighest(entries, best) ==
  IF entries = <<>> THEN best
  ELSE ScanHighest(
         Tail(entries),
         IF ~IsPresent(best.score) \/ Head(entries).score > best.score[1]
         THEN [dimension |-> Head(entries).dimension,
               score |-> Some(Head(entries).score)]
         ELSE best)

GetHighestScoringDimension(scores) == ScanHighest(scores, NoBest)

\* One step of a stable sort: x goes after the elements not above it.
InsertByScore(sorted, x) ==
  LET k == Cardinality({i \in 1..Len(sorted) : sorted[i].score <= x.score})
  IN SubSeq(sorted, 1, k) \o <<x>> \o SubSeq(sorted, k + 1, Len(sorted))

RECURSIVE SortByScore(_)
\* belowThreshold.sort((a, b) => a.score.score - b.score.score), stable
SortByScore(s) ==
  IF s = <<>> THEN <<>>
  ELSE InsertByScore(SortByScore(SubSeq(s, 1, Len(s) - 1)), s[Len(s)])

\* The threshold in use: the argument, or the default.
ThresholdOf(t) == IF IsPresent(t) THEN t[1] ELSE DefaultThreshold

\* GetDimensionsBelowThreshold with `<=`: the threshold itself included.
GetDimensionsUpToThreshold(scores, t) ==
  SortByScore(SelectSeq(scores, LAMBDA e : e.score <= ThresholdOf(t)))

GetDimensionsBelowThreshold(scores, t) ==
  SortByScore(SelectSeq(scores, LAMBDA e : e.score < ThresholdOf(t)))

\* Overall scores of the results that are aggregated: 1.75 and 2.0.
RailScoreVals == {14, 16}

\* The results that are aggregated: an overall score, and at most one
\* dimension.
AggResults ==
  [railScore : RailScoreVals,
   scores : {<<>>,
             <<[dimension |-> "safety", score |-> 52]>>,
             <<[dimension |-> "safety", score |-> 60]>>,
             <<[dimension |-> "privacy", score |-> 56]>>}]

RECURSIVE FSum(_)
\* total += x for each x of xs in turn, from 0
FSum(xs) ==
  IF xs = <<>> THEN 0
  ELSE FAdd(FSum(SubSeq(xs, 1, Len(xs) - 1)), xs[Len(xs)])

RECURSIVE DimScoresOf(_, _)
\* The scores of dimension d in the results, in the order of the results.
DimScoresOf(results, d) ==
  IF results = <<>> THEN <<>>
  ELSE LET own == SelectSeq(Head(results).scores, LAMBDA e : e.dimension = d)
       IN [i \in 1..Len(own) |-> own[i].score]
            \o DimScoresOf(Tail(results), d)

NoAgg ==
  [threw |-> FALSE, averageScore |-> 0, minScore |-> 0, maxScore |-> 0,
   totalEvaluations |-> 0,
   averageDimensionScores |-> [d \in DimNames |-> Absent]]

\* aggregateScores(results): the statistics, or the throw for no results.
AggregateScores(results) ==
  IF Len(results) = 0 THEN [NoAgg EXCEPT !.threw = TRUE]
  ELSE LET overall == [i \in 1..Len(results) |-> results[i].railScore]
           all == {overall[i] : i \in 1..Len(results)}
       IN [threw |-> FALSE,
           averageScore |-> FDiv(FSum(overall), Len(results)),
           minScore |-> CHOOSE x \in all : \A y \in all : x <= y,
           maxScore |-> CHOOSE x \in all : \A y \in all : x >= y,
           totalEvaluations |-> Len(results),
           averageDimensionScores |->
             [d \in DimNames |->
                LET own == DimScoresOf(results, d)
                IN IF own = <<>> THEN Absent
                   ELSE Some(FDiv(FSum(own), Len(own)))]]

\* Nothing computed yet.  done holds the names of the functions applied.
NoUtil ==
  [scores |-> <<>>, results |-> <<>>, threshold |-> Absent,
   lowest |-> NoBest, highest |-> NoBest, below |-> <<>>, agg |-> NoAgg,
   done |-> {}]

-----------------------------------------------------------------------------
(* What the remote side and the transport can do.                          *)

Statuses ==
  {200, 204, 300, 400, 401, 402, 404, 422, 429, 500, 501, 502, 503, 504}

\* response.statusText: the reason phrase, which may be empty.
StatusTexts == {"", "Status Text"}

\* Names of the errors fetch() rejects with.
FetchErrNames == {"FetchError", "AbortError", "TypeError"}

\* Names of the errors response.json() rejects with.
BodyErrNames == {"FetchError", "SyntaxError"}

-----------------------------------------------------------------------------
(* State and actions.                                                      *)

\* The calls before any is made.
InitCalls ==
  /\ pc = [c \in Calls |-> "idle"]
  /\ call = [c \in Calls |-> NoCall]
  /\ timer = [c \in Calls |-> "none"]
  /\ aborted = [c \in Calls |-> FALSE]
  /\ fetchInit = [c \in Calls |-> NoInit]
  /\ transport = [c \in Calls |-> "none"]
  /\ transportCalls = [c \in Calls |-> 0]
  /\ resp = [c \in Calls |-> NoResp]
  /\ classified = [c \in Calls |-> NoErr]
  /\ outcome = [c \in Calls |-> Pending]
  /\ delivered = [c \in Calls |-> 0]

\* A client constructed from an API key alone, and no call made yet.
Init == client = NewClient(DefaultConfig) /\ InitCalls /\ util = NoUtil

\* new RailScore(config) returns the client or throws.
Construct(config) ==
  /\ client.state = "none"
  /\ client' = NewClient(config)
  /\ UNCHANGED <<pc, call, timer, aborted, fetchInit, transport,
                 transportCalls, resp, classified, outcome, delivered, util>>

\* The method settles: its promise resolves or rejects with out.
Settle(c, out) ==
  /\ outcome' = [outcome EXCEPT ![c] = ApiOutcome(call[c].method, out)]
  /\ delivered' = [delivered EXCEPT ![c] = @ + 1]
  /\ pc' = [pc EXCEPT ![c] = "done"]

\* A method (one of methods) is called with arguments that fail one of its
\* local checks: it throws a ValidationError before it calls request().
RejectLocally(c, methods) ==
  /\ pc[c] = "idle"
  /\ client.state = "ready"
  /\ \E m \in methods :
       \E a \in ArgSets(m) :
         /\ IsPresent(Validate(m, a))
         /\ call' = [call EXCEPT
                       ![c] = [NoCall EXCEPT !.method = m, !.args = a]]
         /\ outcome' = [outcome EXCEPT
                          ![c] = Rejected(ValidationErrorMsg(Validate(m, a)[1],
                                                             Absent))]
  /\ delivered' = [delivered EXCEPT ![c] = @ + 1]
  /\ pc' = [pc EXCEPT ![c] = "done"]
  /\ UNCHANGED <<util, client, timer, aborted, fetchInit, transport, transportCalls, resp,
                 classified>>

\* A method (one of methods) is called with arguments that pass its checks:
\* request() runs up to `await fetch(...)`.
\* options[m] is the set of options the method m is called with.
IssueRequest(c, methods, options) ==
  /\ pc[c] = "idle"
  /\ client.state = "ready"
  /\ \E m \in methods :
       \E a \in ArgSets(m) :
         \E o \in options[m] :
           /\ ~IsPresent(Validate(m, a))
           /\ call' = [call EXCEPT
                         ![c] = [method |-> m, args |-> a, options |-> o]]
           /\ fetchInit' = [fetchInit EXCEPT
                              ![c] = [url |-> Url(client.baseUrl, Endpoint(m, a)),
                                      endpoint |-> Endpoint(m, a),
                                      method |-> MergeInit(o).method,
                                      signal |-> MergeInit(o).signal,
                                      headers |->
                                        MergeHeaders(
                                          DefaultHeaders(client.apiKey),
                                          o.headers),
                                      body |-> RequestBody(m, a)]]
  /\ timer' = [timer EXCEPT ![c] = "armed"]
  /\ transport' = [transport EXCEPT ![c] = "inflight"]
  /\ transportCalls' = [transportCalls EXCEPT ![c] = @ + 1]
  /\ pc' = [pc EXCEPT ![c] = "fetching"]
  /\ UNCHANGED <<util, client, aborted, resp, classified, outcome, delivered>>

\* The transport sees the abort of the signal it was handed.
AbortObserved(c) == aborted[c] /\ fetchInit[c].signal = "own"

\* A timer callback that also rejects the call itself.
TimerCallbackRejects(c) ==
  /\ aborted' = [aborted EXCEPT ![c] = TRUE]
  /\ outcome' = [outcome EXCEPT ![c] = Rejected(TimeoutError)]
  /\ delivered' = [delivered EXCEPT ![c] = @ + 1]
  /\ UNCHANGED <<util, client, pc, call, fetchInit, transport, transportCalls, resp,
                 classified>>

\* () => controller.abort()
TimerCallback(c) ==
  /\ aborted' = [aborted EXCEPT ![c] = TRUE]
  /\ UNCHANGED <<util, client, pc, call, fetchInit, transport, transportCalls, resp,
                 classified, outcome, delivered>>

\* TimerFire with one controller shared by the calls of the client.
TimerFireShared(c) ==
  /\ timer[c] = "armed"
  /\ timer' = [timer EXCEPT ![c] = "fired"]
  /\ aborted' = [d \in Calls |-> TRUE]
  /\ UNCHANGED <<util, client, pc, call, fetchInit, transport,
                 transportCalls, resp, classified, outcome, delivered>>

\* The timeout elapses.
TimerFire(c) ==
  /\ timer[c] = "armed"
  /\ timer' = [timer EXCEPT ![c] = "fired"]
  /\ TimerCallback(c)

\* The aborted fetch() rejects with an AbortError; the catch block runs.
AbortReject(c) ==
  /\ pc[c] = "fetching"
  /\ AbortObserved(c)
  /\ timer' = [timer EXCEPT ![c] = ClearTimeout(@)]
  /\ transport' = [transport EXCEPT ![c] = "closed"]
  /\ Settle(c, Rejected(CatchBlock(ForeignError("AbortError"))))
  /\ UNCHANGED <<util, client, call, aborted, fetchInit, transportCalls, resp, classified>>

\* FetchReject with one more attempt before the failure is reported.
FetchRejectRetries(c, name) ==
  /\ pc[c] = "fetching"
  /\ ~AbortObserved(c)
  /\ IF transportCalls[c] < 2
     THEN /\ transportCalls' = [transportCalls EXCEPT ![c] = @ + 1]
          /\ UNCHANGED <<util, client, pc, call, timer, aborted, fetchInit,
                         transport, resp, classified, outcome, delivered>>
     ELSE /\ timer' = [timer EXCEPT ![c] = ClearTimeout(@)]
          /\ transport' = [transport EXCEPT ![c] = "closed"]
          /\ Settle(c, Rejected(CatchBlock(ForeignError(name))))
          /\ UNCHANGED <<util, client, call, aborted, fetchInit,
                         transportCalls, resp, classified>>

\* fetch() rejects (DNS, connection refused, TLS, ...); the catch block runs.
FetchReject(c, name) ==
  /\ pc[c] = "fetching"
  /\ ~AbortObserved(c)
  /\ timer' = [timer EXCEPT ![c] = ClearTimeout(@)]
  /\ transport' = [transport EXCEPT ![c] = "closed"]
  /\ Settle(c, Rejected(CatchBlock(ForeignError(name))))
  /\ UNCHANGED <<util, client, call, aborted, fetchInit, transportCalls, resp, classified>>

\* fetch() resolves with the response: the timer is cleared, and the code
\* goes on to read the body, in handleError when the status is not 2xx.
FetchResolve(c, status, statusText) ==
  /\ pc[c] = "fetching"
  /\ ~AbortObserved(c)
  /\ timer' = [timer EXCEPT ![c] = ClearTimeout(@)]
  /\ transport' = [transport EXCEPT ![c] = "body"]
  /\ resp' = [resp EXCEPT ![c] = [status |-> status, statusText |-> statusText,
                                  body |-> Unparsable, read |-> FALSE]]
  /\ pc' = [pc EXCEPT ![c] = IF ResponseOk(status) THEN "readingBody"
                             ELSE "readingErrorBody"]
  /\ UNCHANGED <<util, client, call, aborted, fetchInit, transportCalls, classified,
                 outcome, delivered>>

\* response.json() of a 2xx response settles: the value is returned, or the
\* rejection (name) goes through the catch block.
ReturnBody(c, raw, name) ==
  /\ pc[c] = "readingBody"
  /\ resp' = [resp EXCEPT ![c].body = raw, ![c].read = TRUE]
  /\ timer' = [timer EXCEPT
                 ![c] = IF ResponseJson(raw).threw THEN ClearTimeout(@) ELSE @]
  /\ transport' = [transport EXCEPT ![c] = "closed"]
  /\ Settle(c, IF ResponseJson(raw).threw
               THEN Rejected(CatchBlock(ForeignError(name)))
               ELSE Resolved(ResponseJson(raw).val))
  /\ UNCHANGED <<util, client, call, aborted, fetchInit, transportCalls, classified>>

\* response.json() of a non-2xx response settles inside handleError, which
\* throws; the catch block of request() runs.  (A normal return of
\* handleError would go on to `return await response.json()`.)
ClassifyBody(c, raw) ==
  LET r == HandleError(resp[c].status, resp[c].statusText, ResponseJson(raw))
  IN /\ pc[c] = "readingErrorBody"
     /\ resp' = [resp EXCEPT ![c].body = raw, ![c].read = TRUE]
     /\ classified' = [classified EXCEPT
                         ![c] = IF r.threw /\ IsRailScoreError(r.err)
                                THEN r.err ELSE @]
     /\ timer' = [timer EXCEPT ![c] = IF r.threw THEN ClearTimeout(@) ELSE @]
     /\ transport' = [transport EXCEPT ![c] = "closed"]
     /\ Settle(c, IF r.threw THEN Rejected(CatchBlock(r.err))
                  ELSE Resolved(raw.val))
     /\ UNCHANGED <<util, client, call, aborted, fetchInit, transportCalls>>

\* The steps of a call in flight.
Pipeline(c, statuses, bodies) ==
  \/ TimerFire(c)
  \/ AbortReject(c)
  \/ \E name \in FetchErrNames : FetchReject(c, name)
  \/ \E status \in statuses, statusText \in StatusTexts :
       FetchResolve(c, status, statusText)
  \/ \E raw \in bodies :
       \E name \in IF raw.ok THEN {"none"} ELSE BodyErrNames :
         ReturnBody(c, raw, name)
  \/ \E raw \in bodies : ClassifyBody(c, raw)

\* One client method is called, with every response and failure possible.
Next ==
  \/ IssueRequest(1, ClientMethods, [m \in ClientMethods |-> OptionSets(m)])
  \/ Pipeline(1, Statuses, RawBodies)

Spec == Init /\ [][Next]_vars

-----------------------------------------------------------------------------
(* The API methods, with every argument of ArgSets and a few responses.    *)

ApiStatuses == {200, 401, 404, 500}

ApiBodies ==
  {Unparsable, RawBody(TRUE, NullV),
   RawBody(TRUE, JsonValue("object", EmptyEnv)),
   RawBody(TRUE, JsonValue("object", [EmptyEnv EXCEPT !.message = Some("msg")])),
   RawBody(TRUE, JsonValue("object",
                           [EmptyEnv EXCEPT !.score = Some("object"),
                                            !.results = Some("array"),
                                            !.variations = Some("array")]))}

NextApi ==
  \/ RejectLocally(1, ApiMethods)
  \/ IssueRequest(1, ApiMethods, [m \in ApiMethods |-> OptionSets(m)])
  \/ Pipeline(1, ApiStatuses, ApiBodies)

SpecApi == Init /\ [][NextApi]_vars

-----------------------------------------------------------------------------
(* Construction of a client from every configuration, then one call of a   *)
(* client method with every choice of headers.                             *)

ClientStatuses == {200, 401}

InitClient == client = NoClient /\ InitCalls /\ util = NoUtil

NextClient ==
  \/ \E config \in Configs : Construct(config)
  \/ IssueRequest(1, ClientMethods,
                  [m \in ClientMethods |-> HeaderOptionSets(m)])
  \/ Pipeline(1, ClientStatuses, ApiBodies)

SpecClient == InitClient /\ [][NextClient]_vars

-----------------------------------------------------------------------------
(* One call with the guarantees of the runtime: a timer that is armed     *)
(* fires, and the rejection of an aborted fetch() is delivered.  The       *)
(* remote side owes nothing: a response or a body may never come.          *)

NextTimed ==
  \/ IssueRequest(1, ClientMethods, [m \in ClientMethods |-> OptionSets(m)])
  \/ Pipeline(1, ApiStatuses, ApiBodies)

SpecTimed ==
  /\ Init
  /\ [][NextTimed]_vars
  /\ WF_vars(TimerFire(1))
  /\ WF_vars(AbortReject(1))

-----------------------------------------------------------------------------
(* Two calls of client methods in flight on one client.                    *)

PairMethods == {"getCredits", "healthCheck"}

PairStatuses == {200, 500}

PairBodies ==
  {Unparsable,
   RawBody(TRUE, JsonValue("object", [EmptyEnv EXCEPT !.message = Some("msg")]))}

NextPair ==
  \E c \in Calls :
    \/ IssueRequest(c, PairMethods, [m \in PairMethods |-> OptionSets(m)])
    \/ Pipeline(c, PairStatuses, PairBodies)

SpecPair == Init /\ [][NextPair]_vars

-----------------------------------------------------------------------------
(* utils.ts: the functions applied to results.                            *)

\* A result, or an array of results, to apply the functions to.
InitUtils ==
  /\ client = NewClient(DefaultConfig)
  /\ InitCalls
  /\ util \in {[NoUtil EXCEPT !.scores = e] : e \in ScoreEntries}
              \cup {[NoUtil EXCEPT !.results = r] :
                      r \in SeqsUpTo(AggResults, MaxResults)}

UtilUnchanged ==
  UNCHANGED <<client, pc, call, timer, aborted, fetchInit, transport,
              transportCalls, resp, classified, outcome, delivered>>

CallGetLowest ==
  /\ "lowest" \notin util.done
  /\ util' = [util EXCEPT !.lowest = GetLowestScoringDimension(util.scores),
                          !.done = @ \cup {"lowest"}]
  /\ UtilUnchanged

CallGetHighest ==
  /\ "highest" \notin util.done
  /\ util' = [util EXCEPT !.highest = GetHighestScoringDimension(util.scores),
                          !.done = @ \cup {"highest"}]
  /\ UtilUnchanged

CallGetBelow(t) ==
  /\ "below" \notin util.done
  /\ util' = [util EXCEPT !.threshold = t,
                          !.below = GetDimensionsBelowThreshold(util.scores, t),
                          !.done = @ \cup {"below"}]
  /\ UtilUnchanged

CallAggregate ==
  /\ "aggregate" \notin util.done
  /\ util' = [util EXCEPT !.agg = AggregateScores(util.results),
                          !.done = @ \cup {"aggregate"}]
  /\ UtilUnchanged

NextUtils ==
  \/ CallGetLowest
  \/ CallGetHighest
  \/ \E t \in Thresholds : CallGetBelow(t)
  \/ CallAggregate

SpecUtils == InitUtils /\ [][NextUtils]_vars

-----------------------------------------------------------------------------
(* Properties.                                                             *)

\* The call has settled after reading the body of a response.
Answered(c) == pc[c] = "done" /\ resp[c].read

C2_NonOkNeverResolves ==
  \A c \in Calls :
    (pc[c] \in {"readingErrorBody", "done"} /\ ~ResponseOk(resp[c].status)
       /\ resp[c].status # 0)
      => /\ outcome[c].state # "resolved"
         /\ pc[c] = "done" => outcome[c].state = "rejected"

C2_Witness ==
  \E c \in Calls :
    /\ Answered(c)
    /\ resp[c].status = 300
    /\ resp[c].body.ok
    /\ resp[c].body.val.t = "object"
    /\ outcome[c].state = "rejected"

\* C3: for any 2xx status request() resolves with the parsed body unchanged
\* and raises no error; getCredits, getUsage and healthCheck return that body.
C3_OkReturnsBody ==
  \A c \in Calls :
    (Answered(c) /\ ResponseOk(resp[c].status)
       /\ call[c].method \in ClientMethods)
      => outcome[c] = Resolved(resp[c].body.val)

\* C4: when the timeout elapses while the transport is pending, the signal
\* handed to the transport is the call's own (not the caller's), it is
\* aborted, and the call rejects with TimeoutError.
C4_TimeoutAborts ==
  \A c \in Calls :
    (timer[c] = "fired") =>
      /\ aborted[c]
      /\ fetchInit[c].signal = "own"
      /\ pc[c] = "done" => outcome[c] = Rejected(TimeoutError)

C4_Witness ==
  \E c \in Calls :
    /\ timer[c] = "fired"
    /\ pc[c] = "done"
    /\ call[c].options.signal = "caller"
    /\ outcome[c].err.kind = "TimeoutError"

\* C5: a TimeoutError is delivered only to a call whose own timer elapsed,
\* whatever the name of the transport failure (a transport failure before
\* the timeout is a NetworkError).
C5_TimeoutOnlyWhenTimerElapsed ==
  \A c \in Calls :
    (outcome[c].state = "rejected" /\ outcome[c].err.kind = "TimeoutError")
      => timer[c] = "fired"

\* C6: in every interleaving of the timer with the response or the failure
\* of the transport the caller observes exactly one outcome, and an outcome
\* once delivered never changes.
C6_ExactlyOneOutcome ==
  /\ [](\A c \in Calls :
          /\ delivered[c] <= 1
          /\ (delivered[c] = 1) <=> (outcome[c].state # "pending")
          /\ (pc[c] = "done") <=> (delivered[c] = 1))
  /\ [][\A c \in Calls :
          (outcome[c].state # "pending") => (outcome'[c] = outcome[c])]_vars

C6_Witness ==
  \E c \in Calls :
    /\ timer[c] = "fired"
    /\ delivered[c] = 1
    /\ call[c].method = "getCredits"
    /\ outcome[c].state = "rejected"

\* C7: once request() has settled, on any exit path, the timer is cleared or
\* has fired (it can no longer fire) and no transport is left in flight.
C7_Released ==
  \A c \in Calls :
    (pc[c] = "done" /\ transportCalls[c] > 0) =>
      /\ timer[c] \in {"cleared", "fired"}
      /\ ~ENABLED TimerFire(c)
      /\ transport[c] = "closed"

C7_Witness ==
  \E c \in Calls :
    /\ pc[c] = "done"
    /\ timer[c] = "cleared"
    /\ transport[c] = "closed"
    /\ outcome[c].err.kind = "NetworkError"

\* A required text argument that is missing, empty or made of spaces only.
AllSpaces(o) == ~IsPresent(o) \/ \A i \in 1..Len(o[1]) : o[1][i] = " "

RequiredTextBlank(m, a) ==
  \/ m \in {"basic", "dimension", "custom", "improve", "rewrite", "check",
            "checkMultiple", "scan", "getRecommendations"}
       /\ AllSpaces(a.content)
  \/ m \in {"generate", "variations"} /\ AllSpaces(a.prompt)
  \/ m = "ragEvaluate" /\ (AllSpaces(a.query) \/ AllSpaces(a.response))

\* An array argument that is missing or empty, or has an element in Bad.
NoneOrSome(o, Bad(_)) ==
  ~IsPresent(o) \/ Len(o[1]) = 0 \/ \E i \in 1..Len(o[1]) : Bad(o[1][i])

BlankContent(x) == AllSpaces(x.content)

EmptySet(x) == ~IsPresent(x) \/ Len(x[1]) = 0

Never(x) == FALSE

Outside(o, lo, hi) == IsPresent(o) /\ o[1] \notin lo..hi

\* The preconditions of the methods, stated on the arguments.
PreconditionFails(m, a) ==
  \/ RequiredTextBlank(m, a)
  \/ m = "dimension" /\ (~IsPresent(a.dimension) \/ a.dimension[1] = "")
  \/ m \in {"check", "getRequirements", "getRecommendations"}
       /\ (~IsPresent(a.framework) \/ a.framework[1] = "")
  \/ m = "custom" /\ NoneOrSome(a.dimensions, Never)
  \/ m = "batch" /\ NoneOrSome(a.items, BlankContent)
  \/ m = "ragEvaluate" /\ NoneOrSome(a.contextChunks, BlankContent)
  \/ m = "rewrite" /\ NoneOrSome(a.issues, AllSpaces)
  \/ m = "generate"
       /\ \/ Outside(a.targetScore, 0, 10)
          \/ Outside(a.maxIterations, 1, 10)
          \/ Outside(a.temperature, 0, 2)
  \/ m = "improve" /\ Outside(a.targetScore, 0, 10)
  \/ m = "variations"
       /\ (NoneOrSome(a.dimensionSets, EmptySet) \/ Outside(a.count, 1, 5))
  \/ m = "checkMultiple"
       /\ (NoneOrSome(a.frameworks, Never) \/ Len(a.frameworks[1]) > 10)

\* C8: whenever a local precondition of a method of evaluation, generation
\* or compliance fails (blank text, missing dimension or framework, empty
\* array, number out of range), the method rejects with ValidationError and
\* no transport call has been issued.
C8_LocalFailureSendsNothing ==
  \A c \in Calls :
    (pc[c] # "idle" /\ PreconditionFails(call[c].method, call[c].args))
      => /\ pc[c] = "done"
         /\ outcome[c].state = "rejected"
         /\ outcome[c].err.kind = "ValidationError"
         /\ transportCalls[c] = 0
         /\ transport[c] = "none"
         /\ timer[c] = "none"

C8_Witness ==
  \E c \in Calls :
    /\ pc[c] = "done"
    /\ call[c].method = "variations"
    /\ ~IsBlank(call[c].args.prompt)
    /\ call[c].args.count = Some(6)
    /\ outcome[c].err.kind = "ValidationError"
    /\ transportCalls[c] = 0

\* C9: the error the classifier produces for a non-2xx response is the error
\* the caller of the API method gets, kind and fields unchanged.
C9_ClassifiedErrorReachesCaller ==
  \A c \in Calls :
    (classified[c] # NoErr) =>
      /\ pc[c] = "done"
      /\ outcome[c] = Rejected(classified[c])

C9_Witness ==
  \E c \in Calls :
    /\ call[c].method = "dimension"
    /\ classified[c].kind = "AuthenticationError"
    /\ classified[c].message.text = "msg"
    /\ outcome[c].err = classified[c]

MessageStatuses == {401, 422, 500, 502, 503, 504}

\* The call was answered with a non-2xx status and its body has been read.
Classified(c) == Answered(c) /\ ~ResponseOk(resp[c].status)

\* The body read is an object (a mapping).
IsMapping(raw) == raw.ok /\ raw.val.t = "object"

\* C11: when the body of a non-2xx response does not parse, or parses to a
\* value that is not a mapping (string, number, null, array), the message of
\* the raised error is the HTTP status text.
C11_NonMappingUsesStatusText ==
  \A c \in Calls :
    (Classified(c) /\ resp[c].status \in MessageStatuses
       /\ ~IsMapping(resp[c].body) /\ resp[c].statusText # "")
      => outcome[c].err.message.text = resp[c].statusText

\* The body read is an object with neither message nor error.
NoMessageNoError(raw) ==
  /\ IsMapping(raw)
  /\ ~IsPresent(raw.val.env.message)
  /\ ~IsPresent(raw.val.env.error)

\* C12 as stated: for status 500 with the body {} the call rejects with
\* ServerError, statusCode 500, whose message is the HTTP status text.
C12_EmptyObjectGetsStatusText ==
  \A c \in Calls :
    (Classified(c) /\ resp[c].status = 500 /\ NoMessageNoError(resp[c].body))
      => /\ outcome[c].err.kind = "ServerError"
         /\ outcome[c].err.statusCode = Some(500)
         /\ outcome[c].err.message.text = resp[c].statusText

\* C12: for status 500 with the body {} (an object with neither message nor
\* error) the call rejects with ServerError, statusCode 500, whose message
\* is "Unknown error", whatever the HTTP status text.
C12_EmptyObjectGetsUnknownError ==
  \A c \in Calls :
    (Classified(c) /\ resp[c].status = 500 /\ NoMessageNoError(resp[c].body))
      => /\ outcome[c].state = "rejected"
         /\ outcome[c].err.kind = "ServerError"
         /\ outcome[c].err.statusCode = Some(500)
         /\ outcome[c].err.message = Msg("plain", 0, "Unknown error")

C12_Witness ==
  \E c \in Calls :
    /\ Classified(c)
    /\ resp[c].status = 500
    /\ resp[c].statusText = "Status Text"
    /\ resp[c].body = RawBody(TRUE, JsonValue("object", EmptyEnv))
    /\ outcome[c].err.message.text = "Unknown error"

\* a ?? b ?? "Unknown error" on two optional strings.
FirstPresent(a, b) ==
  IF IsPresent(a) THEN a[1] ELSE IF IsPresent(b) THEN b[1] ELSE "Unknown error"

\* C13: the message of the classifier is envelope.message whenever that
\* field is present (an empty string included), otherwise envelope.error
\* whenever present, otherwise "Unknown error"; for 401, 422 and
\* 500/502/503/504 it is the message of the raised error.
C13_MessageIsFirstPresent ==
  \A c \in Calls :
    (Classified(c) /\ resp[c].status \in MessageStatuses
       /\ IsMapping(resp[c].body))
      => outcome[c].err.message.text =
           FirstPresent(resp[c].body.val.env.message,
                        resp[c].body.val.env.error)

\* The number in field name of the body read, d when the field is missing
\* (or the body is no mapping).
FieldOr(raw, name, d) ==
  IF IsMapping(raw) /\ IsPresent(raw.val.env[name])
  THEN raw.val.env[name][1] ELSE d

C15_RetryAfterField ==
  \A c \in Calls :
    (Classified(c) /\ resp[c].status = 429) =>
      /\ outcome[c].err.kind = "RateLimitError"
      /\ outcome[c].err.retryAfter =
           Some(FieldOr(resp[c].body, "retry_after", 60))

\* C16: every 5xx status yields a ServerError that carries the status as
\* statusCode.
C16_Every5xxIsServerError ==
  \A c \in Calls :
    (Classified(c) /\ resp[c].status \in 500..599) =>
      /\ outcome[c].err.kind = "ServerError"
      /\ outcome[c].err.statusCode = Some(resp[c].status)

\* C17: for a 2xx response whose body is not valid JSON (an empty body
\* included) the failure that reaches the caller is outside the taxonomy:
\* not a TimeoutError, a NetworkError or any other classified kind.
C17_ParseFailureUnclassified ==
  \A c \in Calls :
    (Answered(c) /\ ResponseOk(resp[c].status) /\ ~resp[c].body.ok) =>
      /\ outcome[c].state = "rejected"
      /\ outcome[c].err.kind \notin RailScoreKinds

\* The configuration has no API key, or an empty one.
KeyMissing(config) == config.apiKey \in {Absent, Some("")}

\* C18: constructing a client with an empty or missing apiKey throws
\* ValidationError 'API key is required' and yields no client; every client
\* that issues a request holds a non-empty credential, and no call reports
\* the missing credential.
C18_KeyRequiredAtConstruction ==
  /\ (client.state # "none") =>
       (KeyMissing(client.config) <=> client.state = "failed")
  /\ (client.state = "failed") =>
       /\ client.error.kind = "ValidationError"
       /\ client.error.message = Msg("plain", 0, "API key is required")
  /\ \A c \in Calls :
       /\ (pc[c] # "idle") =>
            /\ client.state = "ready"
            /\ client.apiKey # ""
            /\ client.config.apiKey = Some(client.apiKey)
       /\ outcome[c].err.message.text # "API key is required"

C18_Witness ==
  /\ client.state = "failed"
  /\ client.config.apiKey = Some("")
  /\ client.config.baseUrl = Some("https://custom")
  /\ client.error.kind = "ValidationError"
  /\ \A c \in Calls : pc[c] = "idle" /\ transportCalls[c] = 0

\* The value request() gives a header by itself.
OwnHeader(h, apiKey) ==
  IF h = "Content-Type" THEN Some(<<"application/json">>)
  ELSE IF h = "Authorization" THEN Some(<<"Bearer ", apiKey>>)
  ELSE IF h = "User-Agent" THEN Some(<<"rail-score-js/1.0.0">>)
  ELSE Absent

\* C19: every transport call of request() goes to baseUrl concatenated with
\* the endpoint as they are and carries Content-Type: application/json,
\* Authorization: Bearer <apiKey of the client> and the fixed User-Agent,
\* except that a header of the same name in options.headers replaces the
\* default one.
C19_UrlAndHeaders ==
  \A c \in Calls :
    (transportCalls[c] > 0) =>
      /\ Len(fetchInit[c].url) = 1 + Len(fetchInit[c].endpoint)
      /\ Head(fetchInit[c].url) = client.baseUrl
      /\ Tail(fetchInit[c].url) = fetchInit[c].endpoint
      /\ \A h \in HeaderNames :
           fetchInit[c].headers[h] =
             IF IsPresent(call[c].options.headers[h])
             THEN call[c].options.headers[h]
             ELSE OwnHeader(h, client.apiKey)

C19_Witness ==
  \E c \in Calls :
    /\ transportCalls[c] > 0
    /\ client.apiKey = "other-key"
    /\ client.baseUrl = "https://custom"
    /\ call[c].options.headers["Authorization"] = Some(<<"custom">>)
    /\ call[c].options.headers["User-Agent"] = Absent
    /\ fetchInit[c].headers["Authorization"] = Some(<<"custom">>)
    /\ fetchInit[c].headers["User-Agent"] = Some(<<"rail-score-js/1.0.0">>)
    /\ fetchInit[c].headers["Content-Type"] = Some(<<"application/json">>)

\* A text argument that was passed and has a character other than a space.
NonBlank(o) == IsPresent(o) /\ \E i \in 1..Len(o[1]) : o[1][i] # " "

\* A number that was not supplied, or lies in lo..hi, both ends included.
InRange(o, lo, hi) == ~IsPresent(o) \/ (o[1] >= lo /\ o[1] =< hi)

\* The arguments with which generate() and improve() are to go through.
Accepted(m, a) ==
  IF m = "generate"
  THEN /\ NonBlank(a.prompt)
       /\ InRange(a.targetScore, 0, 10)
       /\ InRange(a.maxIterations, 1, 10)
       /\ InRange(a.temperature, 0, 2)
  ELSE NonBlank(a.content) /\ InRange(a.targetScore, 0, 10)

NonEmptyAll(o, Good(_)) ==
  IsPresent(o) /\ Len(o[1]) > 0 /\ \A i \in 1..Len(o[1]) : Good(o[1][i])

NonEmptySet(x) == IsPresent(x) /\ Len(x[1]) > 0

\* The arguments with which checkMultiple() and variations() are to go
\* through.
AcceptedList(m, a) ==
  IF m = "checkMultiple"
  THEN /\ NonBlank(a.content)
       /\ IsPresent(a.frameworks)
       /\ Len(a.frameworks[1]) >= 1
       /\ Len(a.frameworks[1]) =< 10
  ELSE /\ NonBlank(a.prompt)
       /\ InRange(a.count, 1, 5)
       /\ NonEmptyAll(a.dimensionSets, NonEmptySet)

ItemName(items, i) ==
  IF items[i].isString THEN <<"item-0", "item-1", "item-2", "item-3">>[i]
  ELSE IF IsPresent(items[i].id) /\ items[i].id[1] # "" THEN items[i].id[1]
  ELSE "unknown"

\* The positions of the items whose content is missing, empty or blank.
BlankItems(items) == {i \in 1..Len(items) : AllSpaces(items[i].content)}

\* C22: batch() sends the items in their order, each plain string at index
\* i replaced by {content, id: "item-<i>"} and each object unchanged, with
\* tier 'balanced' when omitted; if the array is empty or an item has blank
\* content it rejects with ValidationError naming the first such item's id
\* (or 'unknown') and sends nothing.
C22_BatchNormalizes ==
  \A c \in Calls :
    (pc[c] # "idle" /\ call[c].method = "batch") =>
      LET a == call[c].args
          sent == fetchInit[c].body
      IN IF ~IsPresent(a.items) \/ Len(a.items[1]) = 0
              \/ BlankItems(a.items[1]) # {}
         THEN /\ pc[c] = "done"
              /\ transportCalls[c] = 0
              /\ outcome[c].state = "rejected"
              /\ outcome[c].err.kind = "ValidationError"
              /\ (IsPresent(a.items) /\ Len(a.items[1]) > 0) =>
                   \E i \in BlankItems(a.items[1]) :
                      /\ \A j \in BlankItems(a.items[1]) : i <= j
                      /\ outcome[c].err.message =
                           Msg("item-empty", 0, ItemName(a.items[1], i))
         ELSE /\ transportCalls[c] = 1
              /\ Len(sent.items) = Len(a.items[1])
              /\ \A i \in 1..Len(a.items[1]) :
                   IF a.items[1][i].isString
                   THEN /\ ~sent.items[i].isString
                        /\ sent.items[i].content = a.items[1][i].content
                        /\ sent.items[i].id = Some(ItemName(a.items[1], i))
                   ELSE sent.items[i] = a.items[1][i]
              /\ sent.tier = IF IsPresent(a.tier) THEN a.tier[1] ELSE "balanced"

C22_Witness ==
  \E c \in Calls :
    /\ call[c].method = "batch"
    /\ transportCalls[c] = 1
    /\ Len(call[c].args.items[1]) = 2
    /\ ~call[c].args.items[1][1].isString
    /\ call[c].args.items[1][2].isString
    /\ call[c].args.tier = Absent
    /\ fetchInit[c].body.items[2].id = Some("item-1")
    /\ fetchInit[c].body.tier = "balanced"

\* The positions of the dimensions of s whose score is below t.
BelowAt(s, t) == {i \in 1..Len(s) : s[i].score < t}

\* C23: getDimensionsBelowThreshold(result, t) returns exactly the
\* dimensions of result.scores whose score is strictly below t (7.0 when
\* omitted), each once, in ascending order of score; a dimension whose
\* score equals t is left out, and the result is empty when none is below.
C23_BelowThresholdSorted ==
  ("below" \in util.done) =>
    LET s == util.scores
        b == util.below
        t == IF IsPresent(util.threshold) THEN util.threshold[1] ELSE 7 * Unit
    IN /\ Len(b) = Cardinality(BelowAt(s, t))
       /\ \A i \in BelowAt(s, t) : \E j \in 1..Len(b) : b[j] = s[i]
       /\ \A j \in 1..Len(b) : \E i \in BelowAt(s, t) : b[j] = s[i]
       /\ \A j, k \in 1..Len(b) : j < k => b[j].score <= b[k].score

C23_Witness ==
  /\ "below" \in util.done
  /\ util.threshold = Absent
  /\ Len(util.scores) = 3
  /\ util.scores[1].score = 7 * Unit
  /\ util.scores[2].score < 7 * Unit
  /\ util.scores[3].score < 7 * Unit
  /\ Len(util.below) = 2
  /\ util.below[1] = util.scores[2]

\* The smallest and the largest of the overall scores of results.
Smallest(results) ==
  CHOOSE x \in {results[i].railScore : i \in 1..Len(results)} :
    \A i \in 1..Len(results) : x <= results[i].railScore

Largest(results) ==
  CHOOSE x \in {results[i].railScore : i \in 1..Len(results)} :
    \A i \in 1..Len(results) : x >= results[i].railScore

\* The results that have the dimension d.
Holding(results, d) ==
  {i \in 1..Len(results) :
     \E k \in 1..Len(results[i].scores) : results[i].scores[k].dimension = d}

\* C24: aggregateScores(results) throws for an empty array; otherwise
\* totalEvaluations is the length of the array, minScore and maxScore are
\* the smallest and largest railScore.score with
\* minScore <= averageScore <= maxScore, and the average of a dimension is
\* its total divided by the number of results that have the dimension.
C24_AggregateStatistics ==
  ("aggregate" \in util.done) =>
    LET r == util.results
        g == util.agg
    IN IF Len(r) = 0 THEN g.threw
       ELSE /\ ~g.threw
            /\ g.totalEvaluations = Len(r)
            /\ g.minScore = Smallest(r)
            /\ g.maxScore = Largest(r)
            /\ g.minScore <= g.averageScore
            /\ g.averageScore <= g.maxScore
            /\ \A d \in DimNames :
                 g.averageDimensionScores[d] =
                   IF Holding(r, d) = {} THEN Absent
                   ELSE Some(FDiv(FSum(DimScoresOf(r, d)),
                                  Cardinality(Holding(r, d))))

\* C30: for a result with at least one dimension getLowestScoringDimension
\* returns a dimension whose score is at most every other's, the first such
\* in iteration order, and getHighestScoringDimension one whose score is at
\* least every other's; and the first element of a non-empty
\* getDimensionsBelowThreshold(result, t) is the dimension that
\* getLowestScoringDimension returns.
C30_LowestHighestAndBelow ==
  LET s == util.scores IN
  (Len(s) >= 1) =>
    /\ ("lowest" \in util.done) =>
         \E i \in 1..Len(s) :
           /\ util.lowest = [dimension |-> s[i].dimension,
                             score |-> Some(s[i].score)]
           /\ \A j \in 1..Len(s) : s[i].score <= s[j].score
           /\ \A j \in 1..(i - 1) : s[j].score > s[i].score
    /\ ("highest" \in util.done) =>
         \E i \in 1..Len(s) :
           /\ util.highest = [dimension |-> s[i].dimension,
                              score |-> Some(s[i].score)]
           /\ \A j \in 1..Len(s) : s[i].score >= s[j].score
    /\ ({"lowest", "below"} \subseteq util.done /\ Len(util.below) > 0) =>
         util.below[1].dimension = util.lowest.dimension

C30_Witness ==
  /\ {"lowest", "highest", "below"} \subseteq util.done
  /\ Len(util.scores) = 3
  /\ util.scores[1].score > util.scores[2].score
  /\ util.scores[2].score = util.scores[3].score
  /\ Len(util.below) = 2
  /\ util.lowest.dimension = util.scores[2].dimension
  /\ util.below[1].dimension = util.scores[2].dimension
  /\ util.highest.dimension = util.scores[1].dimension

\* C25: each invocation of request() issues exactly one transport call
\* whatever its outcome (success, classified error, timeout, network
\* failure): a failed call is not retried and its failure not suppressed;
\* an API method issues at most one request, none when a check fails.
C25_OneTransportCall ==
  \A c \in Calls :
    /\ transportCalls[c] <= 1
    /\ (pc[c] # "idle") =>
         transportCalls[c] =
           IF PreconditionFails(call[c].method, call[c].args) THEN 0 ELSE 1
    /\ (pc[c] = "done") =>
         /\ delivered[c] = 1
         /\ outcome[c].state \in {"resolved", "rejected"}
         /\ (resp[c].read /\ ~ResponseOk(resp[c].status)) =>
              outcome[c].state = "rejected"

C25_Witness ==
  \E c \in Calls :
    /\ pc[c] = "done"
    /\ call[c].method = "basic"
    /\ transportCalls[c] = 1
    /\ outcome[c].err.kind = "NetworkError"
    /\ outcome[c].err.originalError = Some("FetchError")
    /\ resp[c].status = 0

\* All that belongs to one call.
CallState(c) ==
  <<pc[c], call[c], timer[c], aborted[c], fetchInit[c], transport[c],
    transportCalls[c], resp[c], classified[c], outcome[c], delivered[c]>>

\* C26: of two calls in flight on one client each has its own timer and
\* abort signal: no step of one call (timer expiry, transport failure,
\* completion) aborts the other or changes anything of it, in every
\* interleaving, and no call changes the client's apiKey, baseUrl or
\* timeout.
C26_CallsIndependent ==
  /\ [](\A c \in Calls : aborted[c] => timer[c] = "fired")
  /\ [][/\ client' = client
        /\ \A c, d \in Calls :
             (c # d /\ CallState(c)' # CallState(c)) =>
               CallState(d)' = CallState(d)]_vars

C26_Witness ==
  /\ timer[1] = "fired"
  /\ outcome[1] = Rejected(TimeoutError)
  /\ timer[2] = "armed"
  /\ ~aborted[2]
  /\ pc[2] = "fetching"

\* C27: the timeout covers the whole call: with a timer that fires when it
\* is armed, every call to request() eventually settles, a call whose
\* response headers have arrived and whose body is still being read
\* included.
C27_EveryCallSettles ==
  \A c \in Calls : (pc[c] \notin {"idle", "done"}) ~> (pc[c] = "done")

\* C28: after construction the client's timeout is config.timeout whenever
\* one is supplied, whatever its value, and 60000 only when omitted; its
\* base URL is config.baseUrl whenever supplied and the production default
\* only when omitted.
C28_ConfigValuesKept ==
  (client.state = "ready") =>
    /\ client.timeout =
         IF IsPresent(client.config.timeout) THEN client.config.timeout[1]
         ELSE 60000
    /\ client.baseUrl =
         IF IsPresent(client.config.baseUrl) THEN client.config.baseUrl[1]
         ELSE "https://api.responsibleailabs.ai"

\* C29: every rejection of a public asynchronous method, for every
\* transport outcome, status and body (a 2xx body that is null or lacks the
\* field the method unwraps included), is an instance of RailScoreError.
C29_RejectionsAreRailScoreErrors ==
  \A c \in Calls :
    (outcome[c].state = "rejected") => outcome[c].err.kind \in RailScoreKinds

====
